---- MODULE Spec2Model ----
(***************************************************************************)
(* A model of autotype.py: the command collection kept in commands.json,   *)
(* the form that edits it, and the registration of abbreviations with the  *)
(* keyboard listener.                                                      *)
(*                                                                         *)
(* Conventions.  A Python dict is a function whose DOMAIN is the set of    *)
(* keys it holds: a missing key is a key outside the DOMAIN.  A trigger    *)
(* ("command") is a sequence of one-character strings, so that             *)
(* startswith("/") and concatenation are computed; names and texts are     *)
(* plain strings.  A Python list index i is the position i + 1 here, and   *)
(* None (for "index" and "parent") is position 0.                          *)
(***************************************************************************)
EXTENDS Integers, Sequences, FiniteSets, TLC

VARIABLES
    pc,         \* "boot" | "loaded" | "running" | "dead": where the process is
    err,        \* why the process died: "none" | "KeyError" | "IndexError" | "killed"
    file,       \* commands.json on disk
    commands,   \* CommandList.commands: the one list every CommandList shares
    tree,       \* node data of the mounted CommandList's Tree, in compose order
    data,       \* Form.data
    inputs,     \* values of the widgets #name, #command, #text
    queue,      \* Input.Changed / TextArea.Changed messages not yet handled by Form
    shown,      \* styles.display == "block" of #form, #save, #add-child
    hooks,      \* word listeners hooked into the keyboard library, oldest first
    registered, \* the add_abbreviation calls of the latest listen_keys
    listening,  \* the button handler is blocked in keyboard.wait('esc')
    saved,      \* history: the disk content a write that was cut short replaced
    nStarts,    \* number of Start presses so far
    nSaves      \* number of Save presses that wrote the file so far

vars == <<pc, err, file, commands, tree, data, inputs, queue, shown, hooks,
          registered, listening, saved, nStarts, nSaves>>

-----------------------------------------------------------------------------
(* Bounds of the model *)

\* Save presses that write the file, and Start presses, in one run
MaxSaves == 1
MaxStarts == 2

-----------------------------------------------------------------------------
(* Values *)

None == 0

Slash == "/"

TypedNames == {"n"}
TypedTexts == {"T"}
TypedCommands == {<<"p">>, <<Slash, "p">>}

\* dict helpers
Has(d, k) == k \in DOMAIN d
Get(d, k, default) == IF Has(d, k) THEN d[k] ELSE default
Put(d, k, v) == [x \in DOMAIN d \cup {k} |-> IF x = k THEN v ELSE d[x]]

\* str.startswith("/")
StartsWithSlash(s) == Len(s) > 0 /\ s[1] = Slash

-----------------------------------------------------------------------------
(* commands.json.  A JSON document is modelled as it is laid out: an object *)
(* is the sequence of its <<key, value>> members in insertion order, an     *)
(* array the sequence of its elements.                                      *)

KeyOrder == <<"name", "command", "text", "type", "children">>

\* the keys d holds, in the order the program writes them
PresentKeys(d) == SelectSeq(KeyOrder, LAMBDA k : Has(d, k))

DumpChild(c) ==
    LET ks == PresentKeys(c)
    IN  [i \in 1..Len(ks) |-> <<ks[i], c[ks[i]]>>]

DumpEntry(e) ==
    LET ks == PresentKeys(e)
    IN  [i \in 1..Len(ks) |->
            <<ks[i], IF ks[i] = "children"
                     THEN [j \in 1..Len(e[ks[i]]) |-> DumpChild(e[ks[i]][j])]
                     ELSE e[ks[i]]>>]

\* mutant of JsonDump: only the top-level fields are written, no children
JsonDump_NoChildren(cmds) ==
    [kind |-> "json",
     doc |-> [i \in 1..Len(cmds) |->
                DumpChild([k \in DOMAIN cmds[i] |->
                             IF k = "children" THEN <<>> ELSE cmds[i][k]])]]

\* json.dump(command_list.commands, file, indent=2)
JsonDump(cmds) == [kind |-> "json", doc |-> [i \in 1..Len(cmds) |-> DumpEntry(cmds[i])]]

\* a JSON object becomes a dict; of a repeated key the last member counts
LoadObject(members) ==
    LET keys == {members[i][1] : i \in 1..Len(members)}
        at(k) == CHOOSE i \in 1..Len(members) :
                    /\ members[i][1] = k
                    /\ \A j \in i+1..Len(members) : members[j][1] # k
    IN  [k \in keys |-> members[at(k)][2]]

LoadChild(m) == LoadObject(m)

LoadEntry(m) ==
    LET raw == LoadObject(m)
    IN  [k \in DOMAIN raw |->
            IF k = "children"
            THEN [j \in 1..Len(raw[k]) |-> LoadChild(raw[k][j])]
            ELSE raw[k]]

\* json.load(open("commands.json")) of a file that parses
JsonLoad(f) == [i \in 1..Len(f.doc) |-> LoadEntry(f.doc[i])]

Absent == [kind |-> "absent", doc |-> <<>>]
Garbage == [kind |-> "garbage", doc |-> <<>>]      \* present, not JSON
ZeroLength == [kind |-> "empty", doc |-> <<>>]     \* present, zero bytes
Partial == [kind |-> "partial", doc |-> <<>>]      \* a cut-off JSON text

\* open() and json.load() both succeed
Parses(f) == f.kind = "json"

\* the fallback of the class body: the file holds the empty array
EmptyArray == JsonDump(<<>>)

-----------------------------------------------------------------------------
(* CommandList.compose: the data of the nodes added to the Tree *)

NodeKeys == {"name", "command", "text"}

\* compose reads these keys; a missing one raises KeyError
ComposeOK(cmds) ==
    \A i \in 1..Len(cmds) :
        /\ Has(cmds[i], "type")
        /\ NodeKeys \subseteq DOMAIN cmds[i]
        /\ cmds[i]["type"] = "parent" =>
              /\ Has(cmds[i], "children")
              /\ \A j \in 1..Len(cmds[i]["children"]) :
                    NodeKeys \subseteq DOMAIN cmds[i]["children"][j]

NodeData(index, parent, type, c) ==
    [index |-> index, parent |-> parent, type |-> type,
     name |-> c["name"], command |-> c["command"], text |-> c["text"]]

BranchNodes(cmds, i) ==
    IF cmds[i]["type"] = "parent"
    THEN <<NodeData(i, None, "parent", cmds[i])>>
         \o [j \in 1..Len(cmds[i]["children"]) |->
                NodeData(j, i, "child", cmds[i]["children"][j])]
    ELSE <<NodeData(i, None, "child", cmds[i])>>

RECURSIVE ComposeFrom(_, _)
ComposeFrom(cmds, i) ==
    IF i > Len(cmds) THEN <<>>
    ELSE BranchNodes(cmds, i) \o ComposeFrom(cmds, i + 1)

Compose(cmds) == ComposeFrom(cmds, 1)

-----------------------------------------------------------------------------
(* Form: the widgets, the reactive data and its watcher.  A widget state  *)
(* st is [inputs, queue].                                                  *)

\* widget.value = v: a changed value posts a Changed message
SetValue(st, id, v) ==
    IF st.inputs[id] = v THEN st
    ELSE [inputs |-> [st.inputs EXCEPT ![id] = v], queue |-> Append(st.queue, id)]

\* Form.watch_data
watch_data(st, d) ==
    SetValue(SetValue(SetValue(st, "name", Get(d, "name", "")),
                      "command", Get(d, "command", <<>>)),
             "text", Get(d, "text", ""))

\* self.data = new: the watcher runs only when the value changes
SetData(st, old, new) == IF new = old THEN st ELSE watch_data(st, new)

\* the value on_input_changed writes back into #command
Normalized(v) == IF StartsWithSlash(v) THEN v ELSE <<Slash>> \o v

\* Form.on_input_changed for the Input with this id
on_input_changed(st, d, id) ==
    LET input_value == st.inputs[id]
        st1 == IF id = "command"
               THEN SetValue(st, "command", Normalized(input_value))
               ELSE st
        d1  == Put(d, id, input_value)
        st2 == SetData(st1, d, d1)
    IN  [data |-> d1, inputs |-> st2.inputs, queue |-> st2.queue]

\* Form.on_text_area_changed
on_text_area_changed(st, d) ==
    LET d1  == Put(d, "text", st.inputs["text"])
        st1 == SetData(st, d, d1)
    IN  [data |-> d1, inputs |-> st1.inputs, queue |-> st1.queue]

-----------------------------------------------------------------------------
(* The Save branch of on_button_pressed.  A result is [commands, err]: the *)
(* list as the handler leaves it and the exception that ended it, if any.  *)

Fields == <<"name", "command", "text">>

Ok(cmds) == [commands |-> cmds, err |-> "none"]
Raise(cmds, e) == [commands |-> cmds, err |-> e]

\* mutant of SetChildField: the field of the parent is assigned instead
SetChildField_OnParent(cmds, p, i, f, v) == [cmds EXCEPT ![p] = Put(cmds[p], f, v)]

\* commands[parent]["children"][index][f] = data[f]
SetChildField(cmds, p, i, f, v) ==
    [cmds EXCEPT ![p] =
        Put(cmds[p], "children",
            [cmds[p]["children"] EXCEPT ![i] = Put(cmds[p]["children"][i], f, v)])]

\* commands[index][f] = data[f]
SetTopField(cmds, i, f, v) == [cmds EXCEPT ![i] = Put(cmds[i], f, v)]

\* one of the three assignments of the edit branch, then the ones after it
RECURSIVE UpdateFrom(_, _, _)
UpdateFrom(cmds, d, k) ==
    IF k > Len(Fields) THEN Ok(cmds)
    ELSE LET f == Fields[k]
             i == d["index"]
             p == Get(d, "parent", None)
         IN  IF ~Has(d, f) THEN Raise(cmds, "KeyError")
             ELSE IF p # None
             THEN IF p \notin 1..Len(cmds) THEN Raise(cmds, "IndexError")
                  ELSE IF ~Has(cmds[p], "children") THEN Raise(cmds, "KeyError")
                  ELSE IF i \notin 1..Len(cmds[p]["children"])
                       THEN Raise(cmds, "IndexError")
                  ELSE UpdateFrom(SetChildField(cmds, p, i, f, d[f]), d, k + 1)
             ELSE IF i \notin 1..Len(cmds) THEN Raise(cmds, "IndexError")
                  ELSE UpdateFrom(SetTopField(cmds, i, f, d[f]), d, k + 1)

Update(cmds, d) == UpdateFrom(cmds, d, 1)

\* mutant of NewCommand: the type stays "parent" for a child
NewCommand_AlwaysParent(d, type) ==
    [name |-> d["name"], command |-> d["command"], text |-> d["text"],
     type |-> "parent", children |-> <<>>]

\* the dict built for a new entry
NewCommand(d, type) ==
    [name |-> d["name"], command |-> d["command"], text |-> d["text"],
     type |-> type, children |-> <<>>]

\* mutant of AppendChild: the new child is inserted in front of the others
AppendChild_InFront(cmds, p, new) ==
    [cmds EXCEPT ![p] = Put(cmds[p], "children", <<new>> \o cmds[p]["children"])]

\* commands[parent]["children"].append(new_command)
AppendChild(cmds, p, new) ==
    [cmds EXCEPT ![p] = Put(cmds[p], "children", Append(cmds[p]["children"], new))]

\* mutant of AddNew: a field the form lacks is stored as the empty value
AddNew_Defaults(cmds, d) ==
    LET p == Get(d, "parent", None)
        filled == [name |-> Get(d, "name", ""), command |-> Get(d, "command", <<>>),
                   text |-> Get(d, "text", "")]
    IN  IF p # None
        THEN IF p \notin 1..Len(cmds) THEN Raise(cmds, "IndexError")
             ELSE IF ~Has(cmds[p], "children") THEN Raise(cmds, "KeyError")
             ELSE Ok(AppendChild(cmds, p, NewCommand(filled, "child")))
        ELSE Ok(Append(cmds, NewCommand(filled, "parent")))

\* mutant of AddNew: without the else, a child is appended at top level too
AddNew_NoElse(cmds, d) ==
    LET p == Get(d, "parent", None)
    IN  IF ~(NodeKeys \subseteq DOMAIN d) THEN Raise(cmds, "KeyError")
        ELSE IF p # None
        THEN IF p \notin 1..Len(cmds) THEN Raise(cmds, "IndexError")
             ELSE IF ~Has(cmds[p], "children") THEN Raise(cmds, "KeyError")
             ELSE Ok(Append(AppendChild(cmds, p, NewCommand(d, "child")),
                            NewCommand(d, "child")))
        ELSE Ok(Append(cmds, NewCommand(d, "parent")))

\* the branch that appends
AddNew(cmds, d) ==
    LET p == Get(d, "parent", None)
    IN  IF ~(NodeKeys \subseteq DOMAIN d) THEN Raise(cmds, "KeyError")
        ELSE IF p # None
        THEN IF p \notin 1..Len(cmds) THEN Raise(cmds, "IndexError")
             ELSE IF ~Has(cmds[p], "children") THEN Raise(cmds, "KeyError")
             ELSE Ok(AppendChild(cmds, p, NewCommand(d, "child")))
        ELSE Ok(Append(cmds, NewCommand(d, "parent")))

EditMode(d) == Get(d, "index", None) # None

\* the mutation of the Save branch
SaveResult(cmds, d) == IF EditMode(d) THEN Update(cmds, d) ELSE AddNew(cmds, d)

-----------------------------------------------------------------------------
(* listen_keys: the add_abbreviation calls, in order *)

Abbrev(word, text) == [word |-> word, text |-> text]

\* mutant of Compound: the child's trigger without its parent's
Compound_ChildOnly(command, child) == child["command"]

\* the compound trigger of a child
Compound(command, child) == command["command"] \o child["command"]

CallsFor(command) ==
    <<Abbrev(command["command"], command["text"])>>
    \o (IF command["type"] = "parent"
        THEN [j \in 1..Len(command["children"]) |->
                Abbrev(Compound(command, command["children"][j]),
                       command["children"][j]["text"])]
        ELSE <<>>)

RECURSIVE CallsFrom(_, _)
CallsFrom(cmds, i) ==
    IF i > Len(cmds) THEN <<>>
    ELSE CallsFor(cmds[i]) \o CallsFrom(cmds, i + 1)

Registrations(cmds) == CallsFrom(cmds, 1)

-----------------------------------------------------------------------------
(* Initial state: the process is about to execute the module; commands.json *)
(* is whatever an earlier run or the user left on disk.                     *)

StoredParent ==
    [name |-> "p", command |-> <<Slash, "p">>, text |-> "P", type |-> "parent",
     children |-> << [name |-> "c", command |-> <<Slash, "c">>, text |-> "C"] >>]

\* a top-level entry of type child: it has no "children"
StoredLeaf ==
    [name |-> "l", command |-> <<Slash, "l">>, text |-> "L", type |-> "child"]

ParentFile == JsonDump(<<StoredParent>>)
LeafFile == JsonDump(<<StoredLeaf>>)

\* valid JSON whose entry lacks the required field "text"
BrokenFile ==
    JsonDump(<< [name |-> "p", command |-> <<Slash, "p">>, type |-> "parent",
                 children |-> <<>>] >>)

NoWrite == Absent

NoData == [index |-> None]
NoInputs == [name |-> "", command |-> <<>>, text |-> ""]
NoneShown == [form |-> FALSE, save |-> FALSE, addChild |-> FALSE]

Init ==
    /\ pc = "boot"
    /\ err = "none"
    /\ commands = <<>>
    /\ tree = <<>>
    /\ data = NoData
    /\ inputs = NoInputs
    /\ queue = <<>>
    /\ shown = NoneShown
    /\ hooks = <<>>
    /\ registered = <<>>
    /\ listening = FALSE
    /\ saved = NoWrite
    /\ \/ file = Absent
       \/ file = Garbage
       \/ file = ZeroLength
       \/ file = Partial
       \/ file = BrokenFile
       \/ file = ParentFile
       \/ file = LeafFile
    /\ nStarts = 0
    /\ nSaves = 0

-----------------------------------------------------------------------------
(* Start of the process *)

\* the body of class CommandList: load commands.json, or create it
LoadCommands ==
    /\ pc = "boot"
    /\ IF Parses(file)
       THEN commands' = JsonLoad(file) /\ file' = file
       ELSE commands' = <<>> /\ file' = EmptyArray
    /\ pc' = "loaded"
    /\ UNCHANGED <<err, tree, data, inputs, queue, shown, hooks, registered,
                   listening, saved, nStarts, nSaves>>

\* app.run(): the widgets are composed; a KeyError in compose ends the app
Mount ==
    /\ pc = "loaded"
    /\ IF ComposeOK(commands)
       THEN tree' = Compose(commands) /\ pc' = "running" /\ err' = err
       ELSE tree' = tree /\ pc' = "dead" /\ err' = "KeyError"
    /\ UNCHANGED <<file, commands, data, inputs, queue, shown, hooks, registered,
                   listening, saved, nStarts, nSaves>>

-----------------------------------------------------------------------------
(* The editor.  A handler runs only while the event loop is free.          *)

\* mutant of Idle: handlers run while listen_keys waits
Idle_NotBlocked == pc = "running"

Idle == pc = "running" /\ ~listening

\* The user selects, types and presses Add, Add Child or Start on a form
\* that has settled: no Changed message is pending.  Save is pressed at any
\* time, also between two Changed messages.
Settled == queue = <<>>

\* the user edits a widget of the form
Type(id, v) ==
    /\ Idle
    /\ Settled
    /\ shown.form
    /\ inputs[id] # v
    /\ LET st == SetValue([inputs |-> inputs, queue |-> queue], id, v)
       IN  inputs' = st.inputs /\ queue' = st.queue
    /\ UNCHANGED <<pc, err, file, commands, tree, data, shown, hooks, registered,
                   listening, saved, nStarts, nSaves>>

\* Form handles the oldest Changed message
HandleChanged ==
    /\ Idle
    /\ queue # <<>>
    /\ LET st == [inputs |-> inputs, queue |-> Tail(queue)]
           r  == IF Head(queue) = "text"
                 THEN on_text_area_changed(st, data)
                 ELSE on_input_changed(st, data, Head(queue))
       IN  data' = r.data /\ inputs' = r.inputs /\ queue' = r.queue
    /\ UNCHANGED <<pc, err, file, commands, tree, shown, hooks, registered,
                   listening, saved, nStarts, nSaves>>

\* form.data = d in a handler of the app
AssignFormData(d) ==
    LET st == SetData([inputs |-> inputs, queue |-> queue], data, d)
    IN  data' = d /\ inputs' = st.inputs /\ queue' = st.queue

\* on_tree_node_selected, node n of the tree
SelectNode(n) ==
    /\ Idle
    /\ Settled
    /\ AssignFormData(tree[n])
    /\ shown' = [form |-> TRUE, save |-> TRUE,
                 addChild |-> (Get(tree[n], "type", "") = "parent")]
    /\ UNCHANGED <<pc, err, file, commands, tree, hooks, registered, listening,
                   saved, nStarts, nSaves>>

\* on_tree_node_selected, the root node (it has no data)
SelectRoot ==
    /\ Idle
    /\ Settled
    /\ tree # <<>>
    /\ shown' = NoneShown
    /\ UNCHANGED <<pc, err, file, commands, tree, data, inputs, queue, hooks,
                   registered, listening, saved, nStarts, nSaves>>

\* on_button_pressed, button "add"
Add ==
    /\ Idle
    /\ Settled
    /\ AssignFormData(NoData)
    /\ shown' = [shown EXCEPT !.form = TRUE, !.save = TRUE]
    /\ UNCHANGED <<pc, err, file, commands, tree, hooks, registered, listening,
                   saved, nStarts, nSaves>>

\* on_button_pressed, button "add-child"
AddChild ==
    /\ Idle
    /\ Settled
    /\ shown.addChild
    /\ AssignFormData([index |-> None, parent |-> data["index"]])
    /\ shown' = [shown EXCEPT !.form = TRUE, !.save = TRUE]
    /\ UNCHANGED <<pc, err, file, commands, tree, hooks, registered, listening,
                   saved, nStarts, nSaves>>

\* the Save button can be pressed
CanSave ==
    /\ Idle
    /\ shown.save
    /\ nSaves < MaxSaves

\* on_button_pressed, button "save": mutate, write commands.json, re-mount
Save ==
    /\ CanSave
    /\ LET r == SaveResult(commands, data)
       IN  /\ commands' = r.commands
           /\ IF r.err = "none"
              THEN /\ file' = JsonDump(r.commands)
                   /\ tree' = Compose(r.commands)
                   /\ nSaves' = nSaves + 1
                   /\ UNCHANGED <<pc, err>>
              ELSE /\ pc' = "dead"
                   /\ err' = r.err
                   /\ UNCHANGED <<file, tree, nSaves>>
    /\ UNCHANGED <<data, inputs, queue, shown, hooks, registered, listening,
                   saved, nStarts>>

\* the same handler when the process is killed between open(.., "w") and the
\* end of json.dump: the file is cut to zero bytes or holds part of the text
SaveKilled ==
    /\ CanSave
    /\ LET r == SaveResult(commands, data)
       IN  /\ r.err = "none"
           /\ commands' = r.commands
    /\ saved' = file
    /\ file' = ZeroLength \/ file' = Partial
    /\ pc' = "dead"
    /\ err' = "killed"
    /\ UNCHANGED <<tree, data, inputs, queue, shown, hooks, registered, listening,
                   nStarts, nSaves>>

\* on_button_pressed, button "start": listen_keys up to keyboard.wait.
\* keyboard.add_abbreviation hooks one word listener per call; the program
\* keeps no handle of a listener and removes none, so the listeners of
\* earlier calls stay hooked.
Start ==
    /\ Idle
    /\ Settled
    /\ nStarts < MaxStarts
    /\ registered' = Registrations(commands)
    /\ hooks' = hooks \o Registrations(commands)
    /\ listening' = TRUE
    /\ nStarts' = nStarts + 1
    /\ UNCHANGED <<pc, err, file, commands, tree, data, inputs, queue, shown,
                   saved, nSaves>>

\* Esc is pressed: keyboard.wait returns and the handler ends
Esc ==
    /\ pc = "running"
    /\ listening
    /\ listening' = FALSE
    /\ UNCHANGED <<pc, err, file, commands, tree, data, inputs, queue, shown,
                   hooks, registered, saved, nStarts, nSaves>>

Next ==
    \/ LoadCommands
    \/ Mount
    \/ \E v \in TypedNames : Type("name", v)
    \/ \E v \in TypedCommands : Type("command", v)
    \/ \E v \in TypedTexts : Type("text", v)
    \/ HandleChanged
    \/ \E n \in 1..Len(tree) : SelectNode(n)
    \/ SelectRoot
    \/ Add
    \/ AddChild
    \/ Save
    \/ SaveKilled
    \/ Start
    \/ Esc

Spec == Init /\ [][Next]_vars

\* The editor alone: Start is never pressed.  Start and Esc leave every
\* variable of the editor unchanged.
NextEdit ==
    \/ LoadCommands
    \/ Mount
    \/ \E v \in TypedNames : Type("name", v)
    \/ \E v \in TypedCommands : Type("command", v)
    \/ \E v \in TypedTexts : Type("text", v)
    \/ HandleChanged
    \/ \E n \in 1..Len(tree) : SelectNode(n)
    \/ SelectRoot
    \/ Add
    \/ AddChild
    \/ Save
    \/ SaveKilled

EditSpec == Init /\ [][NextEdit]_vars

\* The runs that begin with no commands.json on disk.
InitAbsent == Init /\ file = Absent

AbsentSpec == InitAbsent /\ [][Next]_vars

-----------------------------------------------------------------------------
(* The Save handler alone, applied to any form data: the indices of the    *)
(* form are drawn from None and the positions up to MaxIndex, whether or   *)
(* not they address an entry of the collection.                            *)

MaxIndex == 3

\* a top-level entry of type child in the layout the program gives a child
StoredLeafWithChildren == NewCommand([name |-> "l", command |-> <<Slash, "l">>,
                                     text |-> "L"], "child")

HandlerCollections ==
    { <<StoredParent>>, <<StoredLeaf>>, <<StoredParent, StoredLeafWithChildren>> }

FilledForm == [name |-> "n", command |-> <<Slash, "n">>, text |-> "T"]

HandlerForms ==
    {Put(FilledForm, "index", i) : i \in 0..MaxIndex}
    \cup {Put(Put(FilledForm, "index", i), "parent", q) :
             i \in 0..MaxIndex, q \in 0..MaxIndex}

InitHandler ==
    /\ pc = "running"
    /\ err = "none"
    /\ commands \in HandlerCollections
    /\ file = JsonDump(commands)
    /\ tree = Compose(commands)
    /\ data \in HandlerForms
    /\ inputs = [name |-> data["name"], command |-> data["command"],
                 text |-> data["text"]]
    /\ queue = <<>>
    /\ shown = [form |-> TRUE, save |-> TRUE, addChild |-> FALSE]
    /\ hooks = <<>>
    /\ registered = <<>>
    /\ listening = FALSE
    /\ saved = NoWrite
    /\ nStarts = 0
    /\ nSaves = 0

NextHandler == Save

HandlerSpec == InitHandler /\ [][NextHandler]_vars

-----------------------------------------------------------------------------
(* Properties *)

\* the process holds a collection in memory and no write was cut short
Alive == pc # "boot" /\ err # "killed"

\* a Save press that wrote commands.json
SaveStep == nSaves' = nSaves + 1

\* the file exists and is not a well-formed collection
Malformed(f) ==
    /\ f # Absent
    /\ Parses(f) => ~ComposeOK(JsonLoad(f))

\* C1: loading never silently drops data.  When commands.json exists and is
\* malformed, the load leaves the file as it was and the startup ends in an
\* error; the fallback that writes the empty array is taken only when the
\* file is absent.
C1_LoadNeverDropsData ==
    [][(pc = "boot" /\ pc' = "loaded") =>
          /\ (file # Absent => file' = file)
          /\ (Malformed(file) => ~ComposeOK(commands'))]_vars

AllTriggers(cmds) ==
    {cmds[i]["command"] : i \in 1..Len(cmds)}
    \cup UNION {{cmds[i]["children"][j]["command"] :
                    j \in 1..Len(cmds[i]["children"])} :
                 i \in {k \in 1..Len(cmds) : Has(cmds[k], "children")}}

\* C2: every trigger a Save stores begins with the delimiter "/", whatever
\* the order of the pending Changed messages and the Save press.
C2_StoredTriggersNormalized ==
    [][SaveStep => \A t \in AllTriggers(commands') : StartsWithSlash(t)]_vars

\* the table the specification of compile describes, as a set of pairs
CompiledPairs(cmds) ==
    {Abbrev(cmds[i]["command"], cmds[i]["text"]) : i \in 1..Len(cmds)}
    \cup UNION {{Abbrev(cmds[i]["command"] \o cmds[i]["children"][j]["command"],
                        cmds[i]["children"][j]["text"]) :
                    j \in 1..Len(cmds[i]["children"])} :
                 i \in {k \in 1..Len(cmds) : cmds[k]["type"] = "parent"}}

Range(seq) == {seq[i] : i \in 1..Len(seq)}

\* C3: while the listener waits, the pairs the Start press registered are
\* exactly one pair per top-level entry plus, for every entry of type parent
\* and each of its children, the pair of the compound trigger and the
\* child's text.
C3_RegisteredIsCompiled ==
    listening => Range(registered) = CompiledPairs(commands)

\* C3 witness: the parent /p "P" with the child /c "C" is armed as
\* {"/p": "P", "/p/c": "C"}
C3_Witness ==
    /\ listening
    /\ commands = <<StoredParent>>
    /\ Range(registered) = {Abbrev(<<Slash, "p">>, "P"),
                            Abbrev(<<Slash, "p", Slash, "c">>, "C")}

\* the expansions armed for a word: those of the listeners hooked for it
Armed(hs, word) == {hs[i].text : i \in {k \in 1..Len(hs) : hs[k].word = word}}

\* C4: last-registered wins.  In the first activation every registered
\* trigger is armed with one expansion, that of the last entry registered
\* for it.
C4_LastRegisteredWins ==
    (listening /\ nStarts = 1) =>
        \A i \in 1..Len(registered) :
            LET last == CHOOSE k \in 1..Len(registered) :
                            /\ registered[k].word = registered[i].word
                            /\ \A m \in k+1..Len(registered) :
                                  registered[m].word # registered[i].word
            IN  Armed(hooks, registered[i].word) = {registered[last].text}

\* C5: whenever no write was cut short, commands.json holds the whole
\* in-memory collection, and the mounted tree shows that collection.
C5_FileIsCollection ==
    Alive =>
        /\ Parses(file)
        /\ JsonLoad(file) = commands
        /\ pc = "running" => tree = Compose(commands)

\* C5 witness: a Save has appended a child to the stored parent
C5_Witness ==
    /\ pc = "running"
    /\ nSaves = 1
    /\ Len(commands) = 1
    /\ Has(commands[1], "children")
    /\ Len(commands[1]["children"]) = 2
    /\ JsonLoad(file) = commands

\* the form was last reset by the Add Child button
AfterAddChild(d) == ~EditMode(d) /\ Has(d, "parent")

\* new is old with one entry of type child appended to the children of the
\* top-level parent p, and nothing else changed
ChildAppendedAt(old, new, p) ==
    /\ Len(new) = Len(old)
    /\ old[p]["type"] = "parent"
    /\ \A k \in 1..Len(old) : k # p => new[k] = old[k]
    /\ DOMAIN new[p] = DOMAIN old[p]
    /\ \A key \in DOMAIN old[p] \ {"children"} : new[p][key] = old[p][key]
    /\ Len(new[p]["children"]) = Len(old[p]["children"]) + 1
    /\ SubSeq(new[p]["children"], 1, Len(old[p]["children"])) = old[p]["children"]
    /\ new[p]["children"][Len(new[p]["children"])]["type"] = "child"

\* C6: every Save that follows a press of Add Child, with no selection and
\* no Add press in between, appends one entry of type child at the end of
\* the children of a top-level parent and changes nothing else.
C6_AddChildAppendsChild ==
    [][(SaveStep /\ AfterAddChild(data)) =>
          \E p \in 1..Len(commands) : ChildAppendedAt(commands, commands', p)]_vars

\* the three fields of new are those of the form, the rest is that of old
FieldsReplaced(old, new, d) ==
    /\ DOMAIN new = DOMAIN old
    /\ \A f \in NodeKeys : new[f] = d[f]
    /\ \A key \in DOMAIN old \ NodeKeys : new[key] = old[key]

\* new is old with the three fields of the entry d addresses replaced
EntryUpdated(old, new, d) ==
    LET i == d["index"]
        p == Get(d, "parent", None)
    IN  /\ Len(new) = Len(old)
        /\ \A k \in 1..Len(old) :
              IF p = None /\ k = i THEN FieldsReplaced(old[k], new[k], d)
              ELSE IF p # None /\ k = p
              THEN /\ DOMAIN new[k] = DOMAIN old[k]
                   /\ \A key \in DOMAIN old[k] \ {"children"} :
                         new[k][key] = old[k][key]
                   /\ Len(new[k]["children"]) = Len(old[k]["children"])
                   /\ \A j \in 1..Len(old[k]["children"]) :
                         IF j = i
                         THEN FieldsReplaced(old[k]["children"][j],
                                             new[k]["children"][j], d)
                         ELSE new[k]["children"][j] = old[k]["children"][j]
              ELSE new[k] = old[k]

C8_CrashSafeSave ==
    err = "killed" =>
        /\ Parses(file)
        /\ file = saved \/ file = JsonDump(commands)

Last(seq) == seq[Len(seq)]

\* children are of type child and have no children of their own
ChildrenAreLeaves(cmds) ==
    \A i \in {k \in 1..Len(cmds) : Has(cmds[k], "children")} :
        \A j \in 1..Len(cmds[i]["children"]) :
            /\ Get(cmds[i]["children"][j], "type", "child") = "child"
            /\ Get(cmds[i]["children"][j], "children", <<>>) = <<>>

\* C9: the hierarchy has depth 2.  Every entry a Save appends at top level
\* has type parent, and in every collection the editor reaches the entries
\* of a children list have type child and no children of their own.
C9_DepthTwo ==
    [][(pc = "loaded" \/ pc = "running") =>
          /\ ChildrenAreLeaves(commands')
          /\ (Len(commands') > Len(commands) =>
                Last(commands')["type"] = "parent")]_vars

\* C9 witness: a Save has appended a child under the stored parent
C9_Witness ==
    /\ nSaves = 1
    /\ Len(commands) = 1
    /\ Has(commands[1], "children")
    /\ Len(commands[1]["children"]) = 2
    /\ commands[1]["children"][2]["type"] = "child"

\* C10: when commands.json is absent at startup the loaded collection is
\* empty and the file is created holding the empty array; from then on a
\* valid file exists.
C10_AbsentCreatesEmptyArray ==
    /\ pc = "loaded" => commands = <<>> /\ file = EmptyArray
    /\ pc # "boot" => Parses(file)

\* C11: restart picks up edits.  While the second activation waits, the
\* pairs armed with the keyboard are exactly the table compiled from the
\* collection as it is at that Start: a pair that only the first activation
\* registered is armed no longer.
C11_RestartArmsCurrentTable ==
    (listening /\ nStarts = 2) => Range(hooks) = CompiledPairs(commands)

\* C12: activation blocks until cancellation.  The step that starts the wait
\* has registered every pair of the compiled table; while the handler waits
\* the collection, commands.json, the form and the tree do not change; and
\* the wait ends only by the Esc key.
C12_BlocksUntilEsc ==
    [][/\ (~listening /\ listening') =>
              Range(registered') = CompiledPairs(commands')
       /\ listening =>
              /\ commands' = commands
              /\ file' = file
              /\ data' = data
              /\ tree' = tree
              /\ (~listening' => Esc)]_vars

\* C12 witness: the handler waits while the form holds an edit of the text
\* that the visible Save button would store
C12_Witness ==
    /\ listening
    /\ shown.save
    /\ EditMode(data)
    /\ data["text"] = "T"
    /\ commands = <<StoredParent>>
    /\ file = ParentFile
    /\ Len(registered) = 2

\* the (parent, index) pair of the form addresses no entry of cmds
NoSuchEntry(cmds, d) ==
    LET i == d["index"]
        p == Get(d, "parent", None)
    IN  IF p = None THEN i \notin 1..Len(cmds)
        ELSE \/ p \notin 1..Len(cmds)
             \/ i \notin 1..Len(Get(cmds[p], "children", <<>>))

\* the parent index of the form addresses no top-level entry of type parent
InvalidParent(cmds, d) ==
    LET p == Get(d, "parent", None)
    IN  p \notin 1..Len(cmds) \/ cmds[p]["type"] # "parent"

\* the Save press fails: an exception ends the handler
SaveFails == pc = "running" /\ pc' = "dead" /\ err' \in {"IndexError", "KeyError"}

AllEntries(cmds) ==
    {cmds[i] : i \in 1..Len(cmds)}
    \cup UNION {{cmds[i]["children"][j] : j \in 1..Len(cmds[i]["children"])} :
                 i \in {k \in 1..Len(cmds) : Has(cmds[k], "children")}}

\* what is left of a trigger after its leading delimiter
AfterDelimiter(t) == IF StartsWithSlash(t) THEN Tail(t) ELSE t

\* C14: data-model validity.  After any sequence of editor events every
\* entry of the collection, top-level and child, has a non-empty name and a
\* trigger that is non-empty after its leading delimiter: a Save of a form
\* with an empty name or an empty or delimiter-only trigger stores nothing
\* of the kind.
C14_EntriesValid ==
    pc # "boot" =>
        \A e \in AllEntries(commands) :
            e["name"] # "" /\ AfterDelimiter(e["command"]) # <<>>

\* new is old up to a rewrite of its name, trigger and text
SameEntry(old, new) ==
    /\ DOMAIN new = DOMAIN old
    /\ \A key \in DOMAIN old \ (NodeKeys \cup {"children"}) : new[key] = old[key]

\* every entry of old is in new at the position it had in old
PositionsKept(old, new) ==
    /\ Len(new) >= Len(old)
    /\ \A k \in 1..Len(old) :
          /\ SameEntry(old[k], new[k])
          /\ Has(old[k], "children") =>
                /\ Len(new[k]["children"]) >= Len(old[k]["children"])
                /\ \A j \in 1..Len(old[k]["children"]) :
                      SameEntry(old[k]["children"][j], new[k]["children"][j])

\* C15: no dangling index.  Every step of the editor keeps each entry at
\* its position and shortens no list, and whenever the form is in edit mode
\* its (parent, index) pair addresses an existing entry, also after a Save
\* has re-mounted the tree.
C15_NoDanglingIndex ==
    [][(pc = "running" /\ pc' = "running") =>
          /\ PositionsKept(commands, commands')
          /\ (EditMode(data') => ~NoSuchEntry(commands', data'))]_vars

\* C15 witness: after a Save of the selected child, the form still holds
\* the selection made on the tree that the Save replaced
C15_Witness ==
    /\ pc = "running"
    /\ nSaves = 1
    /\ EditMode(data)
    /\ data["parent"] = 1
    /\ data["index"] = 1
    /\ commands[1]["children"][1]["text"] = "T"
    /\ ~NoSuchEntry(commands, data)

\* the positions of the entries of cmds: <<i, 0>> for the top-level entry i,
\* <<i, j>> for its child j
Positions(cmds) ==
    {<<i, 0>> : i \in 1..Len(cmds)}
    \cup UNION {{<<i, j>> : j \in 1..Len(cmds[i]["children"])} :
                 i \in {k \in 1..Len(cmds) : Has(cmds[k], "children")}}

EntryAt(cmds, pos) ==
    IF pos[2] = 0 THEN cmds[pos[1]] ELSE cmds[pos[1]]["children"][pos[2]]

\* new has exactly one entry more than old
OneMore(old, new) ==
    /\ Positions(old) \subseteq Positions(new)
    /\ Cardinality(Positions(new)) = Cardinality(Positions(old)) + 1

\* the entry that new has and old has not
Appended(old, new) ==
    EntryAt(new, CHOOSE pos \in Positions(new) \ Positions(old) : TRUE)

\* C16: entry count per Save.  A Save in edit mode leaves the number of
\* top-level entries and of children of every parent unchanged, and pressing
\* it again changes nothing more.  A Save in new-entry mode adds exactly one
\* entry and leaves the form in new-entry mode with the Save button shown,
\* so that the next press appends one more entry with the same fields.
C16_EntryCountPerSave ==
    [][SaveStep =>
          LET again == SaveResult(commands', data')
          IN  /\ again.err = "none"
              /\ data' = data
              /\ shown'.save
              /\ IF EditMode(data)
                 THEN /\ Positions(commands') = Positions(commands)
                      /\ again.commands = commands'
                 ELSE /\ OneMore(commands, commands')
                      /\ OneMore(commands', again.commands)
                      /\ Appended(commands', again.commands)
                            = Appended(commands, commands')]_vars

\* C16 witness: a Save in new-entry mode has appended a second top-level
\* entry and the form is still in new-entry mode
C16_Witness ==
    /\ pc = "running"
    /\ nSaves = 1
    /\ ~EditMode(data)
    /\ shown.save
    /\ Len(commands) = 2
    /\ commands[2]["name"] = data["name"]

\* the form lacks one of name, command and text
Incomplete(d) == ~(NodeKeys \subseteq DOMAIN d)

\* C17: Save with an incomplete form is all-or-nothing.  While the form is
\* in new-entry mode and lacks one of name, command and text, no step
\* changes the collection or commands.json, and the Save press ends in a
\* KeyError; in edit mode the form holds all three fields.
C17_IncompleteSaveFails ==
    [][/\ (pc = "running" /\ ~EditMode(data) /\ Incomplete(data)) =>
              /\ commands' = commands
              /\ file' = file
              /\ nSaves' = nSaves
              /\ (pc' = "dead" => err' = "KeyError")
       /\ (pc' = "running" /\ EditMode(data')) => ~Incomplete(data')]_vars

\* C17 witness: Add, then Save with only the name typed, has ended in a
\* KeyError with the stored collection and file as they were
C17_Witness ==
    /\ pc = "dead"
    /\ err = "KeyError"
    /\ ~EditMode(data)
    /\ DOMAIN data = {"index", "name"}
    /\ commands = <<StoredParent>>
    /\ file = ParentFile
    /\ nSaves = 0

====
